---- MODULE Spec2Model ----
(***************************************************************************)
(* Kava / WKAVA balance checker: the date validation, the binary search    *)
(* for the last block of a day over the archival node's JSON-RPC, the      *)
(* confirmation and balance reads, and main's report / exit code.          *)
(*                                                                         *)
(* Strings are tuples of one-character strings.  The node is the           *)
(* environment: every RPC call may succeed, raise (network / RPC / JSON    *)
(* error) or, for eth_getBlockByNumber, return null.  The chain is a       *)
(* sequence of block timestamps (height h is chain[h + 1]) that may grow   *)
(* while the program runs.                                                 *)
(***************************************************************************)
EXTENDS Integers, Sequences, FiniteSets, TLC

VARIABLES
    caller,         \* "main": main() -> get_balance_on_date; "direct": find_last_block_of_day called alone;
                    \* "encode": encode_balance_of_call called alone
    variant,        \* "native" (kava_balance_checker.py) or "token" (wkava_balance_checker.py)
    date_str,       \* sys.argv[1]
    today,          \* datetime.now(timezone.utc).date() as <<year, month, day>>
    address,        \* self.address
    chain,          \* the node's blocks: chain[h + 1] is the timestamp of height h
    pc,             \* position of the single thread
    target_timestamp,
    latest_block, left, right, result_block,
    block_timestamp,
    call_data,      \* the eth_call payload built by encode_balance_of_call
    calls,          \* history: every Gateway call issued, in order
    error,          \* the exception that reached the top level ("" when none)
    exit_code,      \* Running until the process ends
    result,         \* the record get_balance_on_date returned (NoRecord when none)
    report          \* TRUE once main printed the balance report

vars == <<caller, variant, date_str, today, address, chain, pc, target_timestamp,
          latest_block, left, right, result_block, block_timestamp, call_data,
          calls, error, exit_code, result, report>>

----------------------------------------------------------------------------
(* Bounds of the model *)

\* greatest latest height the node reports when a direct search starts
MaxHeight == 4
\* greatest latest height the node reports in a run of main
RunMaxHeight == 2
\* block timestamps and targets of a direct search are 0..MaxTime
MaxTime == 1
\* blocks mined while the program runs
MaxGrow == 1
\* the sampled owner addresses switch digit at positions 0..MaxSplit
MaxSplit == 3

\* result_block = None
None == -1
\* the process has not exited yet; sys.exit(n) leaves <<n>>
Running == <<>>
NoRecord == <<>>
NoData == <<>>

----------------------------------------------------------------------------
(* Characters and hex strings *)

Digits == {"0", "1", "2", "3", "4", "5", "6", "7", "8", "9"}
NonZeroDigits == Digits \ {"0"}
LowerHex == {"a", "b", "c", "d", "e", "f"}
UpperHex == {"A", "B", "C", "D", "E", "F"}
HexChars == Digits \cup LowerHex \cup UpperHex

DigitVal(c) ==
    CASE c = "0" -> 0 [] c = "1" -> 1 [] c = "2" -> 2 [] c = "3" -> 3
      [] c = "4" -> 4 [] c = "5" -> 5 [] c = "6" -> 6 [] c = "7" -> 7
      [] c = "8" -> 8 [] c = "9" -> 9
      [] c \in {"a", "A"} -> 10 [] c \in {"b", "B"} -> 11
      [] c \in {"c", "C"} -> 12 [] c \in {"d", "D"} -> 13
      [] c \in {"e", "E"} -> 14 [] c \in {"f", "F"} -> 15

HexDigit(n) ==
    CASE n = 0 -> "0" [] n = 1 -> "1" [] n = 2 -> "2" [] n = 3 -> "3"
      [] n = 4 -> "4" [] n = 5 -> "5" [] n = 6 -> "6" [] n = 7 -> "7"
      [] n = 8 -> "8" [] n = 9 -> "9" [] n = 10 -> "a" [] n = 11 -> "b"
      [] n = 12 -> "c" [] n = 13 -> "d" [] n = 14 -> "e" [] n = 15 -> "f"

\* str.lower() on one character
LowerChar(c) ==
    CASE c = "A" -> "a" [] c = "B" -> "b" [] c = "C" -> "c"
      [] c = "D" -> "d" [] c = "E" -> "e" [] c = "F" -> "f"
      [] c = "X" -> "x"
      [] OTHER -> c

lower(s) == [i \in 1..Len(s) |-> LowerChar(s[i])]

Repeat(c, n) == [i \in 1..n |-> c]

\* str.zfill(width): zeros on the left, after a leading sign
zfill(s, width) ==
    IF Len(s) >= width THEN s
    ELSE IF Len(s) > 0 /\ s[1] \in {"+", "-"}
         THEN <<s[1]>> \o Repeat("0", width - Len(s)) \o SubSeq(s, 2, Len(s))
         ELSE Repeat("0", width - Len(s)) \o s

RECURSIVE HexDigitsOf(_)
HexDigitsOf(n) ==
    IF n < 16 THEN <<HexDigit(n)>>
    ELSE HexDigitsOf(n \div 16) \o <<HexDigit(n % 16)>>

\* hex(n) for n >= 0
hex(n) == <<"0", "x">> \o HexDigitsOf(n)

RECURSIVE HexValue(_)
HexValue(ds) ==
    IF Len(ds) = 0 THEN 0
    ELSE 16 * HexValue(SubSeq(ds, 1, Len(ds) - 1)) + DigitVal(ds[Len(ds)])

\* int(s, 16): an optional 0x / 0X prefix, then at least one hex digit;
\* anything else raises ValueError
int16(s) ==
    LET body == IF Len(s) >= 2 /\ s[1] = "0" /\ s[2] \in {"x", "X"}
                THEN SubSeq(s, 3, Len(s)) ELSE s
    IN  IF Len(body) > 0 /\ \A i \in 1..Len(body) : body[i] \in HexChars
        THEN [ok |-> TRUE, val |-> HexValue(body)]
        ELSE [ok |-> FALSE, val |-> 0]

----------------------------------------------------------------------------
(* datetime: strptime(date_str, "%Y-%m-%d"), date comparison, timestamp() *)

At(s, i) == IF i >= 1 /\ i <= Len(s) THEN s[i] ELSE "<end>"

\* the regex strptime builds for %m: 1[0-2]|0[1-9]|[1-9], tried in this order;
\* the length matched at position p given that the literal "-" must follow
MonthLen(s, p) ==
    IF At(s, p) = "1" /\ At(s, p + 1) \in {"0", "1", "2"} /\ At(s, p + 2) = "-" THEN 2
    ELSE IF At(s, p) = "0" /\ At(s, p + 1) \in NonZeroDigits /\ At(s, p + 2) = "-" THEN 2
    ELSE IF At(s, p) \in NonZeroDigits /\ At(s, p + 1) = "-" THEN 1
    ELSE 0

\* the regex for %d: 3[0-1]|[1-2]\d|0[1-9]|[1-9]| [1-9], first alternative that
\* matches at position q (nothing follows it in the format)
DayLen(s, q) ==
    IF At(s, q) = "3" /\ At(s, q + 1) \in {"0", "1"} THEN 2
    ELSE IF At(s, q) \in {"1", "2"} /\ At(s, q + 1) \in Digits THEN 2
    ELSE IF At(s, q) = "0" /\ At(s, q + 1) \in NonZeroDigits THEN 2
    ELSE IF At(s, q) \in NonZeroDigits THEN 1
    ELSE IF At(s, q) = " " /\ At(s, q + 1) \in NonZeroDigits THEN 2
    ELSE 0

RECURSIVE DecValue(_)
DecValue(ds) ==
    IF Len(ds) = 0 THEN 0
    ELSE IF ds[Len(ds)] = " " THEN DecValue(SubSeq(ds, 1, Len(ds) - 1))
    ELSE 10 * DecValue(SubSeq(ds, 1, Len(ds) - 1)) + DigitVal(ds[Len(ds)])

IsLeap(y) == y % 4 = 0 /\ (y % 100 # 0 \/ y % 400 = 0)

DaysInMonth(y, m) ==
    IF m = 2 THEN (IF IsLeap(y) THEN 29 ELSE 28)
    ELSE IF m \in {4, 6, 9, 11} THEN 30 ELSE 31

\* datetime.strptime(s, "%Y-%m-%d"): the parsed date, or the ValueError it raises:
\*   "time data"  for  time data '...' does not match format '%Y-%m-%d'
\*   "unconverted data remains"  for  unconverted data remains: ...
\*   "day is out of range for month"  (also standing for: year 0 is out of range)
strptime(s) ==
    LET yOk  == \A i \in 1..4 : At(s, i) \in Digits
        mLen == MonthLen(s, 6)
        dPos == 6 + mLen + 1
        dLen == DayLen(s, dPos)
        matched == yOk /\ At(s, 5) = "-" /\ mLen > 0 /\ dLen > 0
        y == DecValue(SubSeq(s, 1, 4))
        m == DecValue(SubSeq(s, 6, 5 + mLen))
        d == DecValue(SubSeq(s, dPos, dPos + dLen - 1))
    IN  IF ~matched THEN [err |-> "time data", date |-> <<0, 0, 0>>]
        ELSE IF dPos + dLen - 1 # Len(s) THEN [err |-> "unconverted data remains", date |-> <<0, 0, 0>>]
        ELSE IF y < 1 \/ d > DaysInMonth(y, m) THEN [err |-> "day is out of range for month", date |-> <<0, 0, 0>>]
        ELSE [err |-> "", date |-> <<y, m, d>>]

\* date.__gt__
DateGreater(a, b) ==
    \/ a[1] > b[1]
    \/ a[1] = b[1] /\ a[2] > b[2]
    \/ a[1] = b[1] /\ a[2] = b[2] /\ a[3] > b[3]

RECURSIVE DaysBeforeMonth(_, _)
DaysBeforeMonth(y, m) ==
    IF m = 1 THEN 0 ELSE DaysBeforeMonth(y, m - 1) + DaysInMonth(y, m - 1)

\* date.toordinal(): 1 for 0001-01-01
toordinal(date) ==
    LET y1 == date[1] - 1
    IN  y1 * 365 + (y1 \div 4) - (y1 \div 100) + (y1 \div 400)
        + DaysBeforeMonth(date[1], date[2]) + date[3]

\* int(date_obj.timestamp()) of midnight UTC; 719163 is 1970-01-01's ordinal
timestamp(date) == (toordinal(date) - toordinal(<<1970, 1, 1>>)) * (24 * 60 * 60)

\* validate_date: the date, or the message of the ValueError that leaves the
\* method.  The except clause rewrites only a message containing "time data".
validate_date(s, now) ==
    LET p == strptime(s)
        raised == IF p.err # "" THEN p.err
                  ELSE IF DateGreater(p.date, now) THEN "Date cannot be in the future"
                  ELSE ""
    IN  IF raised = "" THEN [err |-> "", date |-> p.date]
        ELSE IF raised = "time data"
             THEN [err |-> "Invalid date format. Use YYYY-MM-DD format", date |-> p.date]
             ELSE [err |-> raised, date |-> p.date]

\* date_to_timestamps: <<start_of_day, end_of_day>>
date_to_timestamps(date) ==
    LET start_of_day == timestamp(date)
    IN  <<start_of_day, start_of_day + 86399>>

EndOfDay(date) == date_to_timestamps(date)[2]

----------------------------------------------------------------------------
(* The node, as the client sees it *)

Null == [kind |-> "null", timestamp |-> <<>>]
RpcError == [kind |-> "error", timestamp |-> <<>>]

\* eth_getBlockByNumber on a healthy node: the block's hex timestamp, or null
\* beyond the head
node_block(ch, block_hex) ==
    LET h == int16(block_hex).val
    IN  IF h + 1 <= Len(ch) THEN [kind |-> "ok", timestamp |-> hex(ch[h + 1])]
        ELSE Null

\* what one eth_getBlockByNumber call can come back with: the healthy answer,
\* null, or an exception out of _make_rpc_call
BlockReplies(ch, block_hex) == {node_block(ch, block_hex), Null, RpcError}

\* eth_getBalance / eth_call results the node is sampled to give
BalanceReplies == {<<"0", "x">>, <<"0", "x", "6", "4">>}

----------------------------------------------------------------------------
(* find_last_block_of_day *)

\* mutant: block_timestamp < target_timestamp
search_step_strict(l, r, res, mid, reply, T) ==
    IF reply.kind = "null"
    THEN [left |-> l, right |-> mid - 1, result_block |-> res]
    ELSE IF reply.kind = "error" \/ ~int16(reply.timestamp).ok
    THEN [left |-> l, right |-> mid - 1, result_block |-> res]
    ELSE IF int16(reply.timestamp).val < T
    THEN [left |-> mid + 1, right |-> r, result_block |-> mid]
    ELSE [left |-> l, right |-> mid - 1, result_block |-> res]

\* mutant: a failed probe narrows the lower bound instead (left = mid + 1)
search_step_error_up(l, r, res, mid, reply, T) ==
    IF reply.kind = "null"
    THEN [left |-> mid + 1, right |-> r, result_block |-> res]
    ELSE IF reply.kind = "error" \/ ~int16(reply.timestamp).ok
    THEN [left |-> mid + 1, right |-> r, result_block |-> res]
    ELSE IF int16(reply.timestamp).val <= T
    THEN [left |-> mid + 1, right |-> r, result_block |-> mid]
    ELSE [left |-> l, right |-> mid - 1, result_block |-> res]

\* mutant: a null block is recorded as the result before narrowing
search_step_null_records(l, r, res, mid, reply, T) ==
    IF reply.kind = "null"
    THEN [left |-> l, right |-> mid - 1, result_block |-> mid]
    ELSE IF reply.kind = "error" \/ ~int16(reply.timestamp).ok
    THEN [left |-> l, right |-> mid - 1, result_block |-> res]
    ELSE IF int16(reply.timestamp).val <= T
    THEN [left |-> mid + 1, right |-> r, result_block |-> mid]
    ELSE [left |-> l, right |-> mid - 1, result_block |-> res]

\* mutant: a failed probe only drops the top height (right = right - 1)
search_step_slow_narrow(l, r, res, mid, reply, T) ==
    IF reply.kind = "null"
    THEN [left |-> l, right |-> r - 1, result_block |-> res]
    ELSE IF reply.kind = "error" \/ ~int16(reply.timestamp).ok
    THEN [left |-> l, right |-> r - 1, result_block |-> res]
    ELSE IF int16(reply.timestamp).val <= T
    THEN [left |-> mid + 1, right |-> r, result_block |-> mid]
    ELSE [left |-> l, right |-> mid - 1, result_block |-> res]

\* mutant: a probe that raised counts as a qualifying block
search_step_error_records(l, r, res, mid, reply, T) ==
    IF reply.kind = "null"
    THEN [left |-> l, right |-> mid - 1, result_block |-> res]
    ELSE IF reply.kind = "error" \/ ~int16(reply.timestamp).ok
    THEN [left |-> mid + 1, right |-> r, result_block |-> mid]
    ELSE IF int16(reply.timestamp).val <= T
    THEN [left |-> mid + 1, right |-> r, result_block |-> mid]
    ELSE [left |-> l, right |-> mid - 1, result_block |-> res]

\* one iteration of the while loop, given what get_block_by_number(mid) did
search_step(l, r, res, mid, reply, T) ==
    IF reply.kind = "null"
    THEN [left |-> l, right |-> mid - 1, result_block |-> res]
    ELSE IF reply.kind = "error" \/ ~int16(reply.timestamp).ok
    THEN [left |-> l, right |-> mid - 1, result_block |-> res]
    ELSE IF int16(reply.timestamp).val <= T
    THEN [left |-> mid + 1, right |-> r, result_block |-> mid]
    ELSE [left |-> l, right |-> mid - 1, result_block |-> res]

\* mutant: the interval reaches one past the latest block
search_init_beyond(latest) == [left |-> 0, right |-> latest + 1, result_block |-> None]

\* left, right = 0, latest_block; result_block = None
search_init(latest) == [left |-> 0, right |-> latest, result_block |-> None]

\* the whole loop against a node that answers every probe
RECURSIVE search_loop(_, _, _, _, _)
search_loop(l, r, res, ch, T) ==
    IF l > r THEN res
    ELSE LET mid == (l + r) \div 2
             s == search_step(l, r, res, mid, node_block(ch, hex(mid)), T)
         IN  search_loop(s.left, s.right, s.result_block, ch, T)

find_last_block_of_day(ch, latest, T) ==
    LET s == search_init(latest)
    IN  search_loop(s.left, s.right, s.result_block, ch, T)

----------------------------------------------------------------------------
(* WKAVA: balanceOf call data *)

\* mutant: the address is not lower-cased
encode_keeps_case(addr) ==
    LET function_selector == <<"7", "0", "a", "0", "8", "2", "3", "1">>
        address_param == zfill(SubSeq(addr, 3, Len(addr)), 64)
    IN  <<"0", "x">> \o function_selector \o address_param

\* encode_balance_of_call
encode_balance_of_call(addr) ==
    LET function_selector == <<"7", "0", "a", "0", "8", "2", "3", "1">>
        address_param == zfill(lower(SubSeq(addr, 3, Len(addr))), 64)
    IN  <<"0", "x">> \o function_selector \o address_param

\* decode_balance_result
decode_balance_result(r) ==
    IF r = <<"0", "x">> THEN [ok |-> TRUE, val |-> 0] ELSE int16(r)

----------------------------------------------------------------------------
(* Inputs *)

\* ADDRESS in main()
ADDRESS == <<"0", "x", "7", "D", "5", "C", "E", "A", "2", "e", "5", "f", "B", "D",
             "F", "e", "c", "c", "a", "8", "C", "c", "f", "b", "F", "e", "8", "5",
             "A", "C", "0", "2", "1", "C", "8", "1", "7", "a", "7", "f", "3", "8">>

Y2024 == <<"2", "0", "2", "4">>
Y2023 == <<"2", "0", "2", "3">>
Ymd(y, m, d) == y \o <<"-">> \o m \o <<"-">> \o d

\* the command-line dates tried: real days around "today", a day that does not
\* exist, a month that does not exist, trailing text, an unpadded month,
\* slashes, and the empty string
DateInputs ==
    { Ymd(Y2024, <<"0", "2">>, <<"2", "8">>),
      Ymd(Y2024, <<"0", "2">>, <<"2", "9">>),
      Ymd(Y2024, <<"0", "3">>, <<"0", "1">>),
      Ymd(Y2024, <<"0", "3">>, <<"0", "2">>),
      Ymd(Y2024, <<"0", "2">>, <<"3", "0">>),
      Ymd(Y2023, <<"0", "2">>, <<"2", "9">>),
      Ymd(Y2024, <<"1", "3">>, <<"0", "1">>),
      Ymd(Y2024, <<"0", "1">>, <<"3", "2">>),
      Ymd(Y2024, <<"2">>, <<"2", "9">>),
      <<"2", "0", "2", "4", "/", "0", "2", "/", "2", "9">>,
      <<"2", "4", "-", "0", "2", "-", "2", "9">>,
      <<>> }

Todays == {<<2024, 2, 29>>, <<2024, 3, 1>>}

\* block timestamps of a run: the last second of 2024-02-28, of 2024-02-29,
\* and the first second of 2024-03-01
RunTimes ==
    { EndOfDay(<<2024, 2, 28>>), EndOfDay(<<2024, 2, 29>>), EndOfDay(<<2024, 2, 29>>) + 1 }

DirectTimes == 0..MaxTime

\* every chain with heights 0..n, n <= maxh, timestamps in times (monotone or not)
Chains(times, maxh) == UNION { [1..(n + 1) -> times] : n \in 0..maxh }

SampleDigits == {"0", "7", "a", "A", "f", "F"}

\* "0x" then 40 digits: k times c1, then c2
Addr(c1, c2, k) == <<"0", "x">> \o Repeat(c1, k) \o Repeat(c2, 40 - k)

\* owner addresses: well-formed ones in every letter case, and two that are
\* not 40 digits long
AddressInputs ==
    { Addr(c1, c2, k) : c1 \in SampleDigits, c2 \in SampleDigits, k \in 0..MaxSplit }
    \cup { ADDRESS, <<"0", "x", "A", "b">>, <<"0", "x">> \o Repeat("A", 66) }

----------------------------------------------------------------------------
(* History helpers *)

Call(method, during, height, outcome) ==
    [method |-> method, during |-> during, height |-> height, outcome |-> outcome]

CallsOf(during) == { i \in 1..Len(calls) : calls[i].during = during }
Probes == CallsOf("search") \ { i \in 1..Len(calls) : calls[i].method = "eth_blockNumber" }
ProbedHeights == { calls[i].height : i \in Probes }
OkProbes == { calls[i].height : i \in { j \in Probes : calls[j].outcome = "ok" } }
FailedProbes == { calls[i].height : i \in { j \in Probes : calls[j].outcome # "ok" } }

head_height == Len(chain) - 1

----------------------------------------------------------------------------
(* Initial states *)

Idle ==
    /\ latest_block = 0 /\ left = 0 /\ right = 0 /\ result_block = None
    /\ block_timestamp = 0
    /\ call_data = NoData
    /\ calls = <<>>
    /\ error = ""
    /\ exit_code = Running
    /\ result = NoRecord
    /\ report = FALSE

\* main(): python <checker>.py <date>
Init ==
    /\ caller = "main"
    /\ variant \in {"native", "token"}
    /\ date_str \in DateInputs
    /\ today \in Todays
    /\ address = ADDRESS
    /\ chain \in Chains(RunTimes, RunMaxHeight)
    /\ pc = "validate"
    /\ target_timestamp = 0
    /\ Idle

\* checker.find_last_block_of_day(target_timestamp), called on its own
InitSearch ==
    /\ caller = "direct"
    /\ variant = "native"
    /\ date_str = <<>>
    /\ today = <<2024, 2, 29>>
    /\ address = ADDRESS
    /\ chain \in Chains(DirectTimes, MaxHeight)
    /\ pc = "get_block_number"
    /\ target_timestamp \in DirectTimes
    /\ Idle

\* checker.encode_balance_of_call(address), called on its own
InitEncode ==
    /\ caller = "encode"
    /\ variant = "token"
    /\ date_str = <<>>
    /\ today = <<2024, 2, 29>>
    /\ address \in AddressInputs
    /\ chain = <<0>>
    /\ pc = "encode"
    /\ target_timestamp = 0
    /\ Idle

----------------------------------------------------------------------------
(* Actions *)

input == <<caller, variant, date_str, today, address>>
search == <<latest_block, left, right, result_block>>
output == <<exit_code, result, report>>

\* an exception leaves the method: in a run of main it reaches main's
\* "except Exception", which prints "Error: ..." and calls sys.exit(1);
\* a direct caller just sees it raised
Raise(e) ==
    /\ error' = e
    /\ IF caller = "main"
       THEN pc' = "Failed" /\ exit_code' = <<1>>
       ELSE pc' = "raised" /\ exit_code' = exit_code
    /\ UNCHANGED <<result, report>>

\* get_balance_on_date, first lines: validate_date and date_to_timestamps
ValidateInput ==
    /\ pc = "validate"
    /\ LET v == validate_date(date_str, today)
       IN  IF v.err # ""
           THEN Raise(v.err) /\ UNCHANGED target_timestamp
           ELSE /\ target_timestamp' = date_to_timestamps(v.date)[2]
                /\ pc' = "get_block_number"
                /\ UNCHANGED <<error, output>>
    /\ UNCHANGED <<input, chain, search, block_timestamp, call_data, calls>>

\* find_last_block_of_day, up to the loop: get_block_number()
GetBlockNumber ==
    /\ pc = "get_block_number"
    /\ \E ok \in BOOLEAN :
         /\ calls' = Append(calls, Call("eth_blockNumber", "search", None,
                                        IF ok THEN "ok" ELSE "error"))
         /\ IF ok
            THEN LET s == search_init(int16(hex(head_height)).val)
                 IN  /\ latest_block' = int16(hex(head_height)).val
                     /\ left' = s.left /\ right' = s.right
                     /\ result_block' = s.result_block
                     /\ pc' = "loop"
                     /\ UNCHANGED <<error, output>>
            ELSE Raise("Gateway") /\ UNCHANGED search
    /\ UNCHANGED <<input, chain, target_timestamp, block_timestamp, call_data>>

\* one iteration of "while left <= right"
Probe ==
    /\ pc = "loop"
    /\ left <= right
    /\ LET mid == (left + right) \div 2
       IN  \E reply \in BlockReplies(chain, hex(mid)) :
             LET s == search_step(left, right, result_block, mid, reply, target_timestamp)
             IN  /\ left' = s.left /\ right' = s.right
                 /\ result_block' = s.result_block
                 /\ calls' = Append(calls, Call("eth_getBlockByNumber", "search",
                                                int16(hex(mid)).val, reply.kind))
    /\ UNCHANGED <<input, chain, pc, target_timestamp, latest_block, block_timestamp,
                   call_data, error, output>>

\* the loop ends and find_last_block_of_day returns result_block; in
\* get_balance_on_date a None raises "No blocks found for date ..."
Return ==
    /\ pc = "loop"
    /\ left > right
    /\ IF caller = "direct"
       THEN pc' = "returned" /\ UNCHANGED <<error, output>>
       ELSE IF result_block = None
            THEN Raise("No blocks found")
            ELSE pc' = "confirm" /\ UNCHANGED <<error, output>>
    /\ UNCHANGED <<input, chain, target_timestamp, search, block_timestamp, call_data, calls>>

\* mutant: an exception from the confirmation read is swallowed
Confirm_swallows ==
    /\ pc = "confirm"
    /\ \E reply \in BlockReplies(chain, hex(result_block)) :
         /\ calls' = Append(calls, Call("eth_getBlockByNumber", "confirm",
                                        int16(hex(result_block)).val, reply.kind))
         /\ IF reply.kind = "error"
            THEN block_timestamp' = 0 /\ pc' = "balance" /\ UNCHANGED <<error, output>>
            ELSE IF reply.kind = "null" THEN Raise("TypeError") /\ UNCHANGED block_timestamp
            ELSE IF ~int16(reply.timestamp).ok THEN Raise("ValueError") /\ UNCHANGED block_timestamp
            ELSE /\ block_timestamp' = int16(reply.timestamp).val
                 /\ pc' = "balance"
                 /\ UNCHANGED <<error, output>>
    /\ UNCHANGED <<input, chain, target_timestamp, search, call_data>>

\* get_balance_on_date: block_details = get_block_by_number(last_block);
\* block_timestamp = int(block_details["timestamp"], 16)
Confirm ==
    /\ pc = "confirm"
    /\ \E reply \in BlockReplies(chain, hex(result_block)) :
         /\ calls' = Append(calls, Call("eth_getBlockByNumber", "confirm",
                                        int16(hex(result_block)).val, reply.kind))
         /\ IF reply.kind = "error" THEN Raise("Gateway") /\ UNCHANGED block_timestamp
            ELSE IF reply.kind = "null" THEN Raise("TypeError") /\ UNCHANGED block_timestamp
            ELSE IF ~int16(reply.timestamp).ok THEN Raise("ValueError") /\ UNCHANGED block_timestamp
            ELSE /\ block_timestamp' = int16(reply.timestamp).val
                 /\ pc' = "balance"
                 /\ UNCHANGED <<error, output>>
    /\ UNCHANGED <<input, chain, target_timestamp, search, call_data>>

\* mutant: the balance is read at the latest block
balance_block_latest == latest_block

\* the height the balance is read at
balance_block == result_block

\* the balance read (get_balance / get_wkava_balance), the record returned and
\* main's report; falling off the end of main exits with code 0
ReadBalance ==
    /\ pc = "balance"
    /\ call_data' = IF variant = "token" THEN encode_balance_of_call(address) ELSE NoData
    /\ \E ok \in BOOLEAN, reply \in BalanceReplies :
         LET method == IF variant = "token" THEN "eth_call" ELSE "eth_getBalance"
             wei == IF variant = "token" THEN decode_balance_result(reply) ELSE int16(reply)
         IN  /\ calls' = Append(calls, Call(method, "balance", int16(hex(balance_block)).val,
                                            IF ok THEN "ok" ELSE "error"))
             /\ IF ~ok THEN Raise("Gateway")
                ELSE IF ~wei.ok THEN Raise("ValueError")
                ELSE /\ result' = [date |-> date_str, address |-> address,
                                   block_number |-> result_block,
                                   block_timestamp |-> block_timestamp,
                                   balance_wei |-> wei.val]
                     /\ report' = TRUE
                     /\ exit_code' = <<0>>
                     /\ pc' = "Done"
                     /\ UNCHANGED error
    /\ UNCHANGED <<input, chain, target_timestamp, search, block_timestamp>>

\* the node mines a block while the search or the reads are under way
ChainGrows ==
    /\ pc \in {"loop", "confirm", "balance"}
    /\ head_height < latest_block + MaxGrow
    /\ \E t \in (IF caller = "main" THEN RunTimes ELSE DirectTimes) :
         chain' = Append(chain, t)
    /\ UNCHANGED <<input, pc, target_timestamp, search, block_timestamp, call_data,
                   calls, error, output>>

\* encode_balance_of_call on its own
EncodeCall ==
    /\ pc = "encode"
    /\ call_data' = encode_balance_of_call(address)
    /\ pc' = "encoded"
    /\ UNCHANGED <<input, chain, target_timestamp, search, block_timestamp, calls,
                   error, output>>

Next ==
    \/ ValidateInput
    \/ GetBlockNumber
    \/ Probe
    \/ Return
    \/ Confirm
    \/ ReadBalance
    \/ ChainGrows

NextSearch ==
    \/ GetBlockNumber
    \/ Probe
    \/ Return
    \/ ChainGrows

Spec == Init /\ [][Next]_vars

SpecSearch == InitSearch /\ [][NextSearch]_vars

\* the thread's own steps of a direct search; the blocks mined meanwhile are
\* left out: the search reads no height above latest_block
NextThread ==
    \/ GetBlockNumber
    \/ Probe
    \/ Return

\* every RPC call returns or times out (30 s), so the thread always takes its
\* next step
SpecSearchFair ==
    /\ InitSearch /\ [][NextThread]_vars
    /\ WF_vars(GetBlockNumber) /\ WF_vars(Probe) /\ WF_vars(Return)

SpecEncode == InitEncode /\ [][EncodeCall]_vars

----------------------------------------------------------------------------
(* Vocabulary of the properties *)

T == target_timestamp

\* timestamp of height h
Ts(h) == chain[h + 1]

\* the oracle is non-decreasing in height on 0..latest_block
Monotone == \A i, j \in 0..latest_block : i <= j => Ts(i) <= Ts(j)

\* heights of the snapshot whose timestamp is at or before the target
Qualifying == { h \in 0..latest_block : Ts(h) <= T }

\* what the search returns when every probe is answered
FailureFree == find_last_block_of_day(chain, latest_block, T)

ProbeStep == pc = "loop" /\ Len(calls') = Len(calls) + 1

RECURSIVE Log2Floor(_)
Log2Floor(n) == IF n < 2 THEN 0 ELSE 1 + Log2Floor(n \div 2)

----------------------------------------------------------------------------
(* C1 *)

\* C1: for a non-decreasing oracle on 0..N and no failed or absent probe,
\* find_last_block_of_day(T) returns the greatest height with timestamp <= T
\* (so T < timestamp(h + 1) when h < N), and None exactly when timestamp(0) > T;
\* on heights 0..100 with timestamp(h) = h * 1000 and T = 50500 it returns 50.
C1_LastBlockOfDay ==
    /\ (pc = "returned" /\ Monotone /\ FailedProbes = {}) =>
         /\ (result_block = None) <=> (Ts(0) > T)
         /\ (result_block = None) <=> (Qualifying = {})
         /\ result_block # None =>
              /\ result_block \in Qualifying
              /\ \A h \in Qualifying : h <= result_block
              /\ result_block < latest_block => T < Ts(result_block + 1)
              /\ T >= Ts(latest_block) => result_block = latest_block
    /\ pc = "get_block_number" =>
         find_last_block_of_day([i \in 1..101 |-> (i - 1) * 1000], 100, 50500) = 50

\* a failure-free search on a non-decreasing chain that ends strictly inside
\* the chain, on a block whose timestamp equals the target
C1_Witness ==
    /\ pc = "returned" /\ Monotone /\ FailedProbes = {}
    /\ latest_block >= 2
    /\ result_block > 0 /\ result_block < latest_block
    /\ Ts(result_block) = T

----------------------------------------------------------------------------
(* C2 *)

\* C2 as stated: one failed probe (Gateway error or absent block) at a height f
\* does not change the result, provided a qualifying height other than f
\* exists and the search still returned one.
C2_SingleFailureKeepsResult ==
    (/\ pc = "returned" /\ Monotone
     /\ Cardinality(FailedProbes) = 1
     /\ Qualifying \ FailedProbes # {}
     /\ result_block # None)
    => result_block = FailureFree

\* C2 amended: for a non-decreasing oracle, one failed probe at height f leaves
\* the result equal to the failure-free result when timestamp(f) > T; when
\* timestamp(f) <= T the search returns a height strictly below f, or None,
\* while the failure-free result is at least f.
C2_SingleFailureEffect ==
    (pc = "returned" /\ Monotone /\ Cardinality(FailedProbes) = 1) =>
        LET f == CHOOSE h \in FailedProbes : TRUE
        IN  IF Ts(f) > T
            THEN result_block = FailureFree
            ELSE /\ result_block = None \/ result_block < f
                 /\ FailureFree # None /\ f <= FailureFree

\* one failed probe at a qualifying height, and a lower height returned
C2_Witness ==
    /\ pc = "returned" /\ Monotone
    /\ Cardinality(FailedProbes) = 1
    /\ result_block # None
    /\ result_block < FailureFree

----------------------------------------------------------------------------
(* C7 *)

C7_Best == { h \in OkProbes : Ts(h) <= T }

C7_Inv ==
    pc \in {"loop", "returned"} =>
        /\ (result_block = None) <=> (C7_Best = {})
        /\ C7_Best # {} => result_block \in C7_Best /\ \A h \in C7_Best : h <= result_block
        /\ result_block < left

C7_Overwrite == result_block' # result_block => result_block' > result_block

\* C7: at every step of the loop, for any oracle and any failed or absent
\* probes, result_block is None exactly when no answered probe had a
\* timestamp <= target, otherwise it is the highest answered height with
\* timestamp <= target; it is only overwritten by a greater height and stays
\* below left.
C7_ResultIsBestSoFar == [](C7_Inv) /\ [][C7_Overwrite]_vars

\* in the loop, on a chain that is not monotone, after a failed probe and two
\* answered qualifying ones
C7_Witness ==
    /\ pc = "loop" /\ ~Monotone
    /\ FailedProbes # {}
    /\ Cardinality(C7_Best) >= 2
    /\ result_block # None

----------------------------------------------------------------------------
(* C8 *)

BlockNumberCalls == { i \in 1..Len(calls) : calls[i].method = "eth_blockNumber" }

\* the latest height is fetched once, first, and nothing outside the snapshot
\* is probed or returned
C8_Snapshot ==
    /\ Cardinality(BlockNumberCalls) <= 1
    /\ pc \in {"loop", "returned"} => BlockNumberCalls = {1}
    /\ \A h \in ProbedHeights : h >= 0 /\ h <= latest_block
    /\ pc = "returned" /\ result_block # None =>
         result_block >= 0 /\ result_block <= latest_block

\* C8 as stated: the snapshot property, and for any oracle, when
\* target_timestamp >= timestamp(latest_height) and no probe fails, the result
\* is latest_height.
C8_HeadTargetAnyOracle ==
    /\ C8_Snapshot
    /\ (pc = "returned" /\ FailedProbes = {} /\ T >= Ts(latest_block)) =>
         result_block = latest_block

\* C8 amended: the snapshot property, and for a non-decreasing oracle, when
\* target_timestamp >= timestamp(latest_height) and no probe fails, the result
\* is latest_height.
C8_HeadTargetMonotone ==
    /\ C8_Snapshot
    /\ (pc = "returned" /\ Monotone /\ FailedProbes = {} /\ T >= Ts(latest_block)) =>
         result_block = latest_block

\* the head grew during a failure-free search whose target is at or after the
\* snapshot's last block, and the search returned the snapshot's height
C8_Witness ==
    /\ pc = "returned" /\ Monotone /\ FailedProbes = {}
    /\ head_height > latest_block
    /\ latest_block >= 2
    /\ T >= Ts(latest_block)
    /\ Ts(head_height) <= T
    /\ result_block = latest_block

----------------------------------------------------------------------------
(* C9 *)

C9_Inv ==
    /\ Cardinality(ProbedHeights) = Cardinality(Probes)
    /\ pc \in {"loop", "returned"} =>
         Cardinality(Probes) <= Log2Floor(latest_block + 1) + 1

C9_Decrease == ProbeStep => right' - left' < right - left

\* C9: for every latest height N, oracle and pattern of probe outcomes the
\* loop terminates: right - left strictly decreases on every iteration, no
\* height is probed twice, and there are at most floor(log2(N + 1)) + 1 probes.
C9_Terminates ==
    /\ [](C9_Inv)
    /\ [][C9_Decrease]_vars
    /\ <>(pc \in {"returned", "raised"})

\* a search that used every probe the bound allows, one of them failed, on a
\* chain that is not monotone
C9_Witness ==
    /\ pc = "returned"
    /\ latest_block >= 3
    /\ Cardinality(Probes) = Log2Floor(latest_block + 1) + 1
    /\ FailedProbes # {}
    /\ ~Monotone

----------------------------------------------------------------------------
(* C10 *)

\* C10: for a non-decreasing oracle and any failed or absent probes, a
\* returned height was answered by a probe, has timestamp <= target, and is at
\* most the failure-free result; failures only lower the result or make it None.
C10_NeverOverReports ==
    (pc = "returned" /\ Monotone) =>
        /\ result_block # None =>
             /\ result_block \in OkProbes
             /\ Ts(result_block) <= T
             /\ FailureFree # None
             /\ result_block <= FailureFree
        /\ FailedProbes = {} => result_block = FailureFree

\* two failed probes and a result below the failure-free one
C10_Witness ==
    /\ pc = "returned" /\ Monotone
    /\ Cardinality(FailedProbes) >= 2
    /\ result_block # None
    /\ result_block < FailureFree

----------------------------------------------------------------------------
(* C3 *)

\* calls made after the height is resolved that did not come back with a result
FailedReads ==
    { i \in 1..Len(calls) : calls[i].during \in {"confirm", "balance"}
                            /\ calls[i].outcome = "error" }

C3_Fatal ==
    FailedReads # {} =>
        /\ pc = "Failed"
        /\ result = NoRecord
        /\ ~report
        /\ exit_code = <<1>>

C3_ProbeFailureGoesOn ==
    (ProbeStep /\ calls'[Len(calls')].outcome # "ok") =>
        /\ pc' = "loop"
        /\ exit_code' = Running
        /\ error' = ""

\* C3: a Gateway failure during a probe never aborts the run; a Gateway
\* failure on the confirmation read or on the balance read puts the run in
\* Failed: no result record, no balance report, exit code 1.
C3_OnlyProbeFailuresAreSurvived == [](C3_Fatal) /\ [][C3_ProbeFailureGoesOn]_vars

\* a run that reached Done, with exit code 0 and a report, after a probe that
\* raised
C3_Witness ==
    /\ pc = "Done" /\ exit_code = <<0>> /\ report
    /\ \E i \in Probes : calls[i].outcome = "error"

----------------------------------------------------------------------------
(* C4 *)

Phase(p) ==
    CASE p = "validate" -> "ValidateInput"
      [] p \in {"get_block_number", "loop"} -> "ResolveBlock"
      [] p \in {"confirm", "balance"} -> "ReadBalance"
      [] p = "Done" -> "Done"
      [] p = "Failed" -> "Failed"

C4_Order ==
    Phase(pc') # Phase(pc) =>
        <<Phase(pc), Phase(pc')>> \in
            { <<"ValidateInput", "ResolveBlock">>, <<"ResolveBlock", "ReadBalance">>,
              <<"ReadBalance", "Done">>,
              <<"ValidateInput", "Failed">>, <<"ResolveBlock", "Failed">>,
              <<"ReadBalance", "Failed">> }

C4_NotFound ==
    (pc = "loop" /\ left > right /\ result_block = None /\ pc' # pc) =>
        pc' = "Failed" /\ error' = "No blocks found" /\ calls' = calls

C4_Inv ==
    /\ pc = "validate" => calls = <<>>
    /\ calls # <<>> => validate_date(date_str, today).err = ""
    /\ \A i \in CallsOf("confirm") \cup CallsOf("balance") :
         /\ left > right
         /\ result_block # None
         /\ calls[i].height = result_block
         /\ \A j \in Probes : j < i
    /\ \A i \in CallsOf("balance") :
         /\ i = Len(calls)
         /\ calls[i - 1].during = "confirm" /\ calls[i - 1].outcome = "ok"
    /\ error = "No blocks found" =>
         /\ pc = "Failed" /\ result_block = None
         /\ CallsOf("confirm") \cup CallsOf("balance") = {}
    /\ pc = "Done" =>
         /\ result # NoRecord
         /\ result.block_number = result_block
         /\ CallsOf("balance") # {}

\* C4: a run moves through ValidateInput, ResolveBlock, ReadBalance, Done in
\* that order, Failed absorbing; no Gateway call before the date is validated;
\* the balance is read only after the search returned a height, and at that
\* height; a None from the search fails the run with "No blocks found" and no
\* confirmation or balance read.
C4_Phases == [](C4_Inv) /\ [][C4_Order]_vars /\ [][C4_NotFound]_vars

\* a finished run whose resolved height is neither 0 nor the latest one, with
\* the balance read there
C4_Witness ==
    /\ pc = "Done"
    /\ result_block > 0 /\ result_block < latest_block
    /\ \E i \in CallsOf("balance") : calls[i].height = result_block

----------------------------------------------------------------------------
(* C5 *)

Pad2(n) == <<HexDigit(n \div 10), HexDigit(n % 10)>>
Unpadded(n) == IF n < 10 THEN <<HexDigit(n)>> ELSE Pad2(n)

\* the calendar days of the years the inputs name
CalendarDays ==
    { <<2023, 1, 1>> } \cup
    UNION { { <<y, m, d>> : d \in 1..DaysInMonth(y, m) } : y \in {2023, 2024}, m \in 1..12 }

YearText(y) == IF y = 2024 THEN Y2024 ELSE Y2023

\* the ways a calendar day is written as year-month-day
Written(day) ==
    { Ymd(YearText(day[1]), m, d) : m \in {Pad2(day[2]), Unpadded(day[2])},
                                    d \in {Pad2(day[3]), Unpadded(day[3])} }

\* the calendar days date_str denotes (none, or one)
DaysNamed(s) == { day \in CalendarDays : s \in Written(day) }

\* C5: validate_date has three outcomes: "Invalid date format. Use YYYY-MM-DD
\* format" whenever the string is not a real calendar day (2024-02-30
\* included), "Date cannot be in the future" when the day is after today's UTC
\* date, and acceptance otherwise (today included).
C5_ThreeOutcomes ==
    (caller = "main" /\ pc # "validate") =>
        IF DaysNamed(date_str) = {}
        THEN error = "Invalid date format. Use YYYY-MM-DD format"
        ELSE LET day == CHOOSE x \in DaysNamed(date_str) : TRUE
             IN  IF DateGreater(day, today)
                 THEN error = "Date cannot be in the future"
                 ELSE /\ error \notin { "Invalid date format. Use YYYY-MM-DD format",
                                        "Date cannot be in the future",
                                        "unconverted data remains",
                                        "day is out of range for month" }
                      /\ target_timestamp = EndOfDay(day)

----------------------------------------------------------------------------
(* C6 *)

WellFormedAddress(a) ==
    /\ Len(a) = 42
    /\ a[1] = "0" /\ a[2] = "x"
    /\ \A i \in 3..42 : a[i] \in HexChars

\* C6: for an owner address "0x" + 40 hex digits in any letter case the call
\* data is 74 characters: "0x70a08231", 24 zeros, the 40 digits in lower case;
\* "0x" + "a" * 40 gives "0x70a08231" + "0" * 24 + "a" * 40.
C6_CallData ==
    /\ (pc = "encoded" /\ WellFormedAddress(address)) =>
         /\ Len(call_data) = 74
         /\ SubSeq(call_data, 1, 10) = <<"0", "x", "7", "0", "a", "0", "8", "2", "3", "1">>
         /\ \A i \in 11..34 : call_data[i] = "0"
         /\ \A i \in 1..40 :
              /\ call_data[34 + i] \in Digits \cup LowerHex
              /\ DigitVal(call_data[34 + i]) = DigitVal(address[2 + i])
    /\ (pc = "encoded" /\ address = <<"0", "x">> \o Repeat("a", 40)) =>
         call_data = <<"0", "x", "7", "0", "a", "0", "8", "2", "3", "1">>
                     \o Repeat("0", 24) \o Repeat("a", 40)

\* the call data of a well-formed address written with capital and small letters
C6_Witness ==
    /\ pc = "encoded" /\ WellFormedAddress(address)
    /\ \E i \in 3..42 : address[i] \in UpperHex
    /\ \E i \in 3..42 : address[i] \in LowerHex
    /\ Len(call_data) = 74

====
